---------------------------- MODULE Spec2Model ----------------------------
(***************************************************************************)
(* Model of source/envs/unitree_go2_custom_env.py.                         *)
(*                                                                         *)
(* create_unitree_go2_custom_env(task, ...) defines two configuration      *)
(* classes that close over its arguments and registers them under the id   *)
(* `task`.  The body of UnitreeGo2CustomEnvCfg.__post_init__ does not run  *)
(* during that call: it runs when the registered class is instantiated.    *)
(* The model therefore has two steps: the registering call, and the        *)
(* instantiation of the registered environment configuration.              *)
(*                                                                         *)
(* Arguments that __post_init__ only forwards verbatim into collaborator   *)
(* constructors (actuator gains, randomisation ranges, command ranges)     *)
(* take part in no branch and are not modelled.                            *)
(***************************************************************************)
EXTENDS Integers, Sequences, FiniteSets, TLC

VARIABLES closure, registry, cfg, raised, pc

vars == <<closure, registry, cfg, raised, pc>>

---------------------------------------------------------------------------
(* Bounds of the explored inputs.                                          *)

\* terrain_roughness_cm ranges over NaN and 5 * (-MaxRoughnessK .. MaxRoughnessK)
MaxRoughnessK == 1
\* terrain_slope_degrees ranges over NaN and 10 * (-MaxSlopeK .. MaxSlopeK)
MaxSlopeK == 1
\* display_resolution ranges over 720, 1080 and 100 * (1 .. MaxResolutionK)
MaxResolutionK == 1

---------------------------------------------------------------------------
(* Python floats as far as the branches read them: a value or NaN.         *)
(* Comparisons follow IEEE 754: every ordered comparison with NaN is       *)
(* false and NaN != x is true.                                             *)

Num(v) == [nan |-> FALSE, v |-> v]
NaN == [nan |-> TRUE, v |-> 0]

GtZero(x) == ~x.nan /\ x.v > 0
LtZero(x) == ~x.nan /\ x.v < 0
NeZero(x) == x.nan \/ x.v # 0

---------------------------------------------------------------------------
(* Binary64 arithmetic of  int(display_resolution * (1280 / 720)).         *)
(* A float is [m |-> bits, e |-> k]: bits is the significand, most         *)
(* significant bit first, and the value is  int(bits) * 2^k.  Python's     *)
(* int / int and float * float are correctly rounded (round half to even)  *)
(* and int() truncates.                                                    *)

Precision == 53

\* the number of binary digits of n >= 0
BitLength(n) == Cardinality({i \in 0..30 : 2 ^ i <= n})

\* binary digits of n >= 0, most significant first (<< >> for 0)
IntToBits(n) ==
    [i \in 1..BitLength(n) |-> (n \div (2 ^ (BitLength(n) - i))) % 2]

RECURSIVE BitsToInt(_)
\* the value of at most 30 binary digits, by halves
BitsToInt(bits) ==
    LET n == Len(bits)
        h == n \div 2
    IN  IF n = 0 THEN 0
        ELSE IF n = 1 THEN bits[1]
        ELSE BitsToInt(SubSeq(bits, 1, n - h)) * (2 ^ h)
               + BitsToInt(SubSeq(bits, n - h + 1, n))

StripZeros(bits) ==
    LET ones == {i \in 1..Len(bits) : bits[i] = 1}
    IN  IF ones = {} THEN << >>
        ELSE SubSeq(bits, CHOOSE i \in ones : \A j \in ones : i <= j, Len(bits))

\* bits + 1, one digit longer when every digit is 1
Increment(bits) ==
    LET n == Len(bits)
        zeros == {i \in 1..n : bits[i] = 0}
    IN  IF zeros = {} THEN <<1>> \o [i \in 1..n |-> 0]
        ELSE LET p == CHOOSE i \in zeros : \A j \in zeros : j <= i
             IN  [i \in 1..n |-> IF i < p THEN bits[i] ELSE IF i = p THEN 1 ELSE 0]

\* Round the exact value  int(bits) * 2^e  (sticky: a nonzero part below the
\* last digit of bits) to Precision digits, ties to even.
RoundNearestEven(bits, e, sticky) ==
    LET b == StripZeros(bits)
        n == Len(b)
    IN  IF n <= Precision THEN [m |-> b, e |-> e]
        ELSE LET keep  == SubSeq(b, 1, Precision)
                 guard == b[Precision + 1]
                 rest  == sticky \/ (\E i \in (Precision + 2)..n : b[i] = 1)
                 up    == guard = 1 /\ (rest \/ keep[Precision] = 1)
                 r     == IF up THEN Increment(keep) ELSE keep
             IN  IF Len(r) > Precision
                 THEN [m |-> SubSeq(r, 1, Precision), e |-> e + (n - Precision) + 1]
                 ELSE [m |-> r, e |-> e + (n - Precision)]

RECURSIVE PowMod(_, _)
\* 2^k mod b, by squaring (b < 2^15)
PowMod(k, b) ==
    IF k = 0 THEN 1 % b
    ELSE LET half == PowMod(k \div 2, b)
             sq   == (half * half) % b
         IN  IF k % 2 = 0 THEN sq ELSE (2 * sq) % b

\* what is left of rem / b after k binary digits of long division
DivRemainder(rem, b, k) == (rem * PowMod(k, b)) % b

\* the k-th binary digit (k >= 1) of rem / b, for 0 <= rem < b
DivDigit(rem, b, k) == (2 * DivRemainder(rem, b, k - 1)) \div b

\* a / b for integers a >= b > 0: the correctly rounded quotient
TrueDiv(a, b) ==
    LET whole == IntToBits(a \div b)
        frac  == Precision + 1 - Len(whole)
        digits == [k \in 1..frac |-> DivDigit(a % b, b, k)]
    IN  RoundNearestEven(whole \o digits, -frac, DivRemainder(a % b, b, frac) # 0)

\* the j-th group of 15 binary digits of bits, counted from the least
\* significant group 0, as a number
Limb(bits, j) ==
    LET hi == Len(bits) - 15 * j
        lo == IF hi > 15 THEN hi - 14 ELSE 1
    IN  BitsToInt(SubSeq(bits, lo, hi))

LimbBits(v) == [i \in 1..15 |-> (v \div (2 ^ (15 - i))) % 2]

RECURSIVE MulLimbs(_, _, _, _)
\* h * int(bits), group by group from group j on, for 0 <= h < 2^15
MulLimbs(h, bits, j, carry) ==
    IF 15 * j >= Len(bits) THEN IntToBits(carry)
    ELSE LET t == h * Limb(bits, j) + carry
         IN  MulLimbs(h, bits, j + 1, t \div (2 ^ 15)) \o LimbBits(t % (2 ^ 15))

\* h * x for an integer 0 <= h < 2^15 (exactly a float) and a float x
FloatMul(h, x) == RoundNearestEven(MulLimbs(h, x.m, 0, 0), x.e, FALSE)

\* int(x) for a float 0 <= x < 2^30: the digits above the binary point
FloatToInt(x) ==
    IF x.e >= 0 THEN BitsToInt(x.m) * (2 ^ x.e)
    ELSE IF -x.e >= Len(x.m) THEN 0
    ELSE BitsToInt(SubSeq(x.m, 1, Len(x.m) + x.e))

\* Faulty variant: the ratio taken with integer division, 1280 // 720.
ViewerWidth_IntegerRatio(display_resolution) ==
    display_resolution * (1280 \div 720)

\* int(display_resolution * (1280 / 720))
ViewerWidth(display_resolution) ==
    FloatToInt(FloatMul(display_resolution, TrueDiv(1280, 720)))


---------------------------------------------------------------------------
(* Values.                                                                 *)

\* Python's None
None == [none |-> TRUE]

\* a value the base configuration supplies and this file never reads
Inherited(name) == [inherited |-> name]

\* a float literal of the source, kept as written
Lit(text) == [lit |-> text]

RecognizedTask == "Isaac-Velocity-Custom-Unitree-Go2-v0"

TaskIds == {RecognizedTask, "Isaac-Velocity-Flat-Unitree-Go2-v0"}

RoughnessValues == {NaN} \cup {Num(5 * k) : k \in (-MaxRoughnessK)..MaxRoughnessK}
SlopeValues == {NaN} \cup {Num(10 * k) : k \in (-MaxSlopeK)..MaxSlopeK}
DisplayTypes == {"world", "zoom", "follow", "orbit"}
DisplayResolutions == {720, 1080} \cup {100 * k : k \in 1..MaxResolutionK}
StartYawMins == {Lit("-3.14"), Lit("0.0")}
StartYawMaxs == {Lit("0.0"), Lit("3.14")}

\* the arguments of create_unitree_go2_custom_env that __post_init__ branches on
\* or that the claims read back
Arguments ==
    [task : TaskIds,
     terrain_roughness_cm : RoughnessValues,
     terrain_slope_degrees : SlopeValues,
     height_scan : BOOLEAN,
     start_yaw_min : StartYawMins,
     start_yaw_max : StartYawMaxs,
     terminate_contacts : BOOLEAN,
     eval_mode : BOOLEAN,
     display_mode : BOOLEAN,
     display_type : DisplayTypes,
     display_resolution : DisplayResolutions]

---------------------------------------------------------------------------
(* The configuration tree after super().__post_init__(): the fields this   *)
(* file writes, with the values the base class leaves in them.             *)

BaseSubTerrainNames ==
    {"pyramid_stairs", "pyramid_stairs_inv", "boxes", "random_rough",
     "hf_pyramid_slope", "hf_pyramid_slope_inv"}

BaseRewardNames ==
    {"track_lin_vel_xy_exp", "track_ang_vel_z_exp", "lin_vel_z_l2",
     "ang_vel_xy_l2", "dof_torques_l2", "dof_acc_l2", "action_rate_l2",
     "feet_air_time", "undesired_contacts", "flat_orientation_l2",
     "dof_pos_limits"}

BaseViewer ==
    [resolution |-> <<1280, 720>>,
     origin_type |-> "inherited",
     asset_name |-> "inherited",
     eye |-> <<Inherited("eye")>>]

BaseCfg ==
    [scene |->
        [terrain |->
            [terrain_type |-> "generator",
             terrain_generator |->
                [curriculum |-> TRUE,
                 size |-> <<8, 8>>,
                 num_rows |-> 10,
                 num_cols |-> 20,
                 sub_terrains |-> [n \in BaseSubTerrainNames |-> Inherited(n)]],
             visual_material |-> Inherited("visual_material")],
         height_scanner |-> Inherited("height_scanner")],
     curriculum |-> [terrain_levels |-> Inherited("terrain_levels")],
     viewer |-> BaseViewer,
     observations |->
        [policy |->
            [height_scan |-> Inherited("height_scan"),
             base_lin_vel |-> Inherited("base_lin_vel")]],
     events |->
        [reset_base |-> [params |-> [pose_range |-> [yaw |-> <<Inherited("yaw")>>]]],
         reset_robot_joints |-> Inherited("reset_robot_joints")],
     rewards |->
        [n \in BaseRewardNames |->
            [func |-> n, weight |-> "inherited", params |-> Inherited(n)]],
     terminations |->
        [base_contact |-> [params |-> [sensor_cfg |-> [body_names |-> "inherited"]]]]]

---------------------------------------------------------------------------
(* UnitreeGo2CustomEnvCfg.__post_init__, stage by stage.  c is the         *)
(* configuration so far, a the captured arguments.                         *)

\* no terrain curriculum
CurriculumStage(c) ==
    [c EXCEPT !.curriculum.terrain_levels = None,
              !.scene.terrain.terrain_generator.curriculum = FALSE]

RandomRough(noise_max) ==
    [class |-> "HfRandomUniformTerrainCfg",
     proportion |-> "1.0",
     noise_range |-> <<Lit("0.00"), noise_max>>,
     noise_step |-> "0.01",
     downsampled_scale |-> "0.25",
     border_width |-> "0.10"]

\* abs(math.tan(terrain_slope_degrees / 180 * math.pi)), left unevaluated
TerrainSlope(degrees) == [abs_tan_of_degrees |-> degrees]

PyramidSloped(degrees, inverted) ==
    [class |-> "HfPyramidSlopedTerrainCfg",
     proportion |-> "1.0",
     slope_range |-> <<TerrainSlope(degrees), TerrainSlope(degrees)>>,
     platform_width |-> "2.0",
     border_width |-> "0.10",
     inverted |-> inverted]

\* Faulty variant: the slope branches tested before the roughness branch.
SubTerrainStage_SlopeFirst(gen, a) ==
    IF GtZero(a.terrain_slope_degrees)
    THEN [gen EXCEPT !.sub_terrains =
            [n \in {"hf_pyramid_incline"} |->
                PyramidSloped(a.terrain_slope_degrees, TRUE)]]
    ELSE IF LtZero(a.terrain_slope_degrees)
    THEN [gen EXCEPT !.sub_terrains =
            [n \in {"hf_pyramid_decline"} |->
                PyramidSloped(a.terrain_slope_degrees, FALSE)]]
    ELSE IF GtZero(a.terrain_roughness_cm)
    THEN [gen EXCEPT !.sub_terrains =
            [n \in {"random_rough"} |->
                RandomRough([times |-> <<a.terrain_roughness_cm, Lit("0.01")>>])]]
    ELSE IF a.display_mode
    THEN [gen EXCEPT !.sub_terrains =
            [n \in {"random_rough"} |-> RandomRough(Lit("0.00"))]]
    ELSE gen

\* the if / elif chain that picks the generator's sub-terrain; when no branch
\* is taken the base class's sub-terrains stay
SubTerrainStage(gen, a) ==
    IF GtZero(a.terrain_roughness_cm)
    THEN [gen EXCEPT !.sub_terrains =
            [n \in {"random_rough"} |->
                RandomRough([times |-> <<a.terrain_roughness_cm, Lit("0.01")>>])]]
    ELSE IF GtZero(a.terrain_slope_degrees)
    THEN [gen EXCEPT !.sub_terrains =
            [n \in {"hf_pyramid_incline"} |->
                PyramidSloped(a.terrain_slope_degrees, TRUE)]]
    ELSE IF LtZero(a.terrain_slope_degrees)
    THEN [gen EXCEPT !.sub_terrains =
            [n \in {"hf_pyramid_decline"} |->
                PyramidSloped(a.terrain_slope_degrees, FALSE)]]
    ELSE IF a.display_mode
    THEN [gen EXCEPT !.sub_terrains =
            [n \in {"random_rough"} |-> RandomRough(Lit("0.00"))]]
    ELSE gen

\* Faulty variant: the generator kept for any nonzero roughness, negative ones too.
TerrainStage_RoughnessNonZero(c, a) ==
    IF NeZero(a.terrain_roughness_cm) \/ NeZero(a.terrain_slope_degrees)
          \/ a.display_mode
    THEN [c EXCEPT !.scene.terrain.terrain_generator =
            SubTerrainStage([@ EXCEPT !.size = <<50, 50>>,
                                      !.num_rows = 4,
                                      !.num_cols = 4], a)]
    ELSE [c EXCEPT !.scene.terrain.terrain_type = "plane",
                   !.scene.terrain.terrain_generator = None]

TerrainStage(c, a) ==
    IF GtZero(a.terrain_roughness_cm) \/ NeZero(a.terrain_slope_degrees)
          \/ a.display_mode
    THEN [c EXCEPT !.scene.terrain.terrain_generator =
            SubTerrainStage([@ EXCEPT !.size = <<50, 50>>,
                                      !.num_rows = 4,
                                      !.num_cols = 4], a)]
    ELSE [c EXCEPT !.scene.terrain.terrain_type = "plane",
                   !.scene.terrain.terrain_generator = None]

\* Faulty variant: an unknown display_type falls back to the world framing.
DisplayStage_DefaultsToWorld(c, a) ==
    IF a.display_mode
    THEN LET c1 == [c EXCEPT
                      !.scene.terrain.visual_material =
                          [class |-> "PreviewSurfaceCfg",
                           diffuse_color |-> <<"0.08", "0.08", "0.08">>],
                      !.viewer.resolution =
                          <<ViewerWidth(a.display_resolution), a.display_resolution>>]
         IN  IF a.display_type = "zoom"
             THEN [c1 EXCEPT !.viewer.origin_type = "asset_root",
                             !.viewer.asset_name = "robot",
                             !.viewer.eye = <<Lit("2.0"), Lit("2.0"), Lit("2.0")>>]
             ELSE IF a.display_type = "follow"
             THEN [c1 EXCEPT !.viewer.origin_type = "asset_root",
                             !.viewer.asset_name = "robot",
                             !.viewer.eye = <<Lit("-5.0"), Lit("2.0"), Lit("1.5")>>]
             ELSE [c1 EXCEPT !.viewer.origin_type = "world"]
    ELSE c

DisplayStage(c, a) ==
    IF a.display_mode
    THEN LET c1 == [c EXCEPT
                      !.scene.terrain.visual_material =
                          [class |-> "PreviewSurfaceCfg",
                           diffuse_color |-> <<"0.08", "0.08", "0.08">>],
                      !.viewer.resolution =
                          <<ViewerWidth(a.display_resolution), a.display_resolution>>]
         IN  IF a.display_type = "world"
             THEN [c1 EXCEPT !.viewer.origin_type = "world"]
             ELSE IF a.display_type = "zoom"
             THEN [c1 EXCEPT !.viewer.origin_type = "asset_root",
                             !.viewer.asset_name = "robot",
                             !.viewer.eye = <<Lit("2.0"), Lit("2.0"), Lit("2.0")>>]
             ELSE IF a.display_type = "follow"
             THEN [c1 EXCEPT !.viewer.origin_type = "asset_root",
                             !.viewer.asset_name = "robot",
                             !.viewer.eye = <<Lit("-5.0"), Lit("2.0"), Lit("1.5")>>]
             ELSE c1
    ELSE c

\* Faulty variant: only the sensor is removed, its observation term stays.
HeightScanStage_SensorOnly(c, a) ==
    IF ~a.height_scan
    THEN [c EXCEPT !.scene.height_scanner = None]
    ELSE c

HeightScanStage(c, a) ==
    IF ~a.height_scan
    THEN [c EXCEPT !.scene.height_scanner = None,
                   !.observations.policy.height_scan = None]
    ELSE c

ResetJointsTrain ==
    [func |-> "reset_joints_train",
     mode |-> "reset",
     params |-> [stand_range |-> <<Lit("0.0"), Lit("1.0")>>,
                 position_delta_range |-> <<Lit("-0.10"), Lit("0.10")>>]]

\* Faulty variant: the training joint reset installed in eval mode too.
EventsStage_AlwaysTrain(c, a) ==
    [c EXCEPT !.events.reset_base.params.pose_range.yaw =
                  <<a.start_yaw_min, a.start_yaw_max>>,
              !.events.reset_robot_joints = ResetJointsTrain]

EventsStage(c, a) ==
    LET c1 == [c EXCEPT !.events.reset_base.params.pose_range.yaw =
                            <<a.start_yaw_min, a.start_yaw_max>>]
    IN  IF ~a.eval_mode
        THEN [c1 EXCEPT !.events.reset_robot_joints = ResetJointsTrain]
        ELSE c1

ObservationsStage(c) ==
    [c EXCEPT !.observations.policy.base_lin_vel = None]

\* obj.name = value on an object whose attributes are the function's domain
SetAttr(obj, name, value) ==
    [n \in DOMAIN obj \cup {name} |-> IF n = name THEN value ELSE obj[n]]

\* Faulty variant: the two terms are added but the inherited weights are not
\* overwritten.
RewardStage_KeepsBaseWeights(c) ==
    LET w1 == SetAttr(c.rewards, "base_height_l2",
                 [func |-> "base_height_l2",
                  weight |-> "-30.0",
                  params |-> [target_height |-> "0.34"]])
        w2 == SetAttr(w1, "undesired_contacts",
                 [func |-> "undesired_contacts",
                  weight |-> "-1.0",
                  params |-> [sensor_cfg |->
                                 [name |-> "contact_forces",
                                  body_names |-> ".*thigh|.*calf|.*hip"],
                              threshold |-> "1.0"]])
    IN  [c EXCEPT !.rewards = w2]

\* the branch taken for the recognized task: reward coefficients and the two
\* added terms
RewardStage(c) ==
    LET w  == [c.rewards EXCEPT
                 !["track_lin_vel_xy_exp"].weight = "1.0",
                 !["track_ang_vel_z_exp"].weight = "0.5",
                 !["lin_vel_z_l2"].weight = "-2.0",
                 !["ang_vel_xy_l2"].weight = "-0.05",
                 !["flat_orientation_l2"].weight = "-0.1",
                 !["dof_torques_l2"].weight = "-1e-5",
                 !["dof_acc_l2"].weight = "-2.5e-7",
                 !["action_rate_l2"].weight = "-0.01",
                 !["feet_air_time"].weight = "1.0",
                 !["dof_pos_limits"].weight = "-10.0"]
        w1 == SetAttr(w, "base_height_l2",
                 [func |-> "base_height_l2",
                  weight |-> "-30.0",
                  params |-> [target_height |-> "0.34"]])
        w2 == SetAttr(w1, "undesired_contacts",
                 [func |-> "undesired_contacts",
                  weight |-> "-1.0",
                  params |-> [sensor_cfg |->
                                 [name |-> "contact_forces",
                                  body_names |-> ".*thigh|.*calf|.*hip"],
                              threshold |-> "1.0"]])
    IN  [c EXCEPT !.rewards = w2]

\* str.startswith
StartsWith(s, prefix) ==
    Len(s) >= Len(prefix) /\ SubSeq(s, 1, Len(prefix)) = prefix

\* Faulty variant: the test on the prefix inverted, so the tracking terms are the ones
\* nulled.
EvalStage_NullsTracking(c, a) ==
    IF a.eval_mode
    THEN LET c1 == [c EXCEPT !.rewards =
                      [key \in DOMAIN c.rewards |->
                          IF StartsWith(key, "track") THEN None
                          ELSE c.rewards[key]]]
         IN  IF a.terminate_contacts
             THEN [c1 EXCEPT
                     !.terminations.base_contact.params.sensor_cfg.body_names =
                         "base|.*hip|.*thigh|Head_upper|Head_lower"]
             ELSE c1
    ELSE c

\* Faulty variant: the termination pattern widened outside the eval-mode branch.
EvalStage_WidensWithoutEval(c, a) ==
    LET c1 == IF a.eval_mode
              THEN [c EXCEPT !.rewards =
                      [key \in DOMAIN c.rewards |->
                          IF ~StartsWith(key, "track") THEN None
                          ELSE c.rewards[key]]]
              ELSE c
    IN  IF a.terminate_contacts
        THEN [c1 EXCEPT
                !.terminations.base_contact.params.sensor_cfg.body_names =
                    "base|.*hip|.*thigh|Head_upper|Head_lower"]
        ELSE c1

\* eval mode: keep tracking rewards only, and widen the contact termination
\* when asked to
EvalStage(c, a) ==
    IF a.eval_mode
    THEN LET c1 == [c EXCEPT !.rewards =
                      [key \in DOMAIN c.rewards |->
                          IF ~StartsWith(key, "track") THEN None
                          ELSE c.rewards[key]]]
         IN  IF a.terminate_contacts
             THEN [c1 EXCEPT
                     !.terminations.base_contact.params.sensor_cfg.body_names =
                         "base|.*hip|.*thigh|Head_upper|Head_lower"]
             ELSE c1
    ELSE c

NoError == [type |-> "none"]

\* raise ValueError("custom task %s not defined" % task)
UnrecognizedTask(task) ==
    [type |-> "ValueError", message |-> "custom task " \o task \o " not defined"]

\* Faulty variant: no else branch, an unrecognized task skips reward shaping silently.
PostInit_NoRaise(a) ==
    LET c6 == ObservationsStage(EventsStage(HeightScanStage(DisplayStage(
                  TerrainStage(CurriculumStage(BaseCfg), a), a), a), a))
    IN  IF a.task = RecognizedTask
        THEN [cfg |-> EvalStage(RewardStage(c6), a), raised |-> NoError]
        ELSE [cfg |-> EvalStage(c6, a), raised |-> NoError]

\* The whole of __post_init__: the configuration it leaves, or the error it
\* raises (the half-built object is then dropped with the failed constructor).
PostInit(a) ==
    LET c1 == CurriculumStage(BaseCfg)
        c2 == TerrainStage(c1, a)
        c3 == DisplayStage(c2, a)
        c4 == HeightScanStage(c3, a)
        c5 == EventsStage(c4, a)
        c6 == ObservationsStage(c5)
    IN  IF a.task = RecognizedTask
        THEN [cfg |-> EvalStage(RewardStage(c6), a), raised |-> NoError]
        ELSE [cfg |-> None, raised |-> UnrecognizedTask(a.task)]

---------------------------------------------------------------------------
(* State.                                                                  *)
(*   closure   the arguments the two configuration classes captured        *)
(*   registry  the ids registered with gym                                 *)
(*   cfg       the environment configuration built from the registered     *)
(*             class, None before that and when its constructor raised     *)
(*   raised    the exception the last step raised                          *)
(*   pc        "start", "registered" after the call, "done" after the      *)
(*             registered configuration class was instantiated             *)

Init ==
    /\ closure = None
    /\ registry = {}
    /\ cfg = None
    /\ raised = NoError
    /\ pc = "start"

\* The call: the class definitions capture the arguments, gym.register runs.
create_unitree_go2_custom_env ==
    /\ pc = "start"
    /\ \E a \in Arguments :
          /\ closure' = a
          /\ registry' = registry \cup {a.task}
    /\ pc' = "registered"
    /\ UNCHANGED <<cfg, raised>>

\* The framework instantiates the registered env_cfg_entry_point.
UnitreeGo2CustomEnvCfg ==
    /\ pc = "registered"
    /\ closure.task \in registry
    /\ LET r == PostInit(closure)
       IN  /\ cfg' = r.cfg
           /\ raised' = r.raised
    /\ pc' = "done"
    /\ UNCHANGED <<closure, registry>>

Next ==
    \/ create_unitree_go2_custom_env
    \/ UnitreeGo2CustomEnvCfg

Spec == Init /\ [][Next]_vars

\* a configuration was built
Built == pc = "done" /\ raised = NoError

---------------------------------------------------------------------------
(* Properties.                                                             *)

TrackNames == {"track_lin_vel_xy_exp", "track_ang_vel_z_exp"}

\* the reward coefficients of the recognized task
RewardTable ==
    {<<"track_lin_vel_xy_exp", "1.0">>, <<"track_ang_vel_z_exp", "0.5">>,
     <<"lin_vel_z_l2", "-2.0">>, <<"ang_vel_xy_l2", "-0.05">>,
     <<"flat_orientation_l2", "-0.1">>, <<"dof_torques_l2", "-1e-5">>,
     <<"dof_acc_l2", "-2.5e-7">>, <<"action_rate_l2", "-0.01">>,
     <<"feet_air_time", "1.0">>, <<"dof_pos_limits", "-10.0">>,
     <<"base_height_l2", "-30.0">>, <<"undesired_contacts", "-1.0">>}

\* the weight of the reward term called name, "None" for a null term and
\* "absent" when there is no such term
WeightOf(rewards, name) ==
    IF name \notin DOMAIN rewards THEN "absent"
    ELSE IF rewards[name] = None THEN "None"
    ELSE rewards[name].weight

KnownDisplayTypes == {"world", "zoom", "follow"}

WidePattern == "base|.*hip|.*thigh|Head_upper|Head_lower"

C2_TerrainPrecedence ==
    Built =>
      LET r   == closure.terrain_roughness_cm
          s   == closure.terrain_slope_degrees
          gen == cfg.scene.terrain.terrain_generator
          one(name) == /\ gen # None
                       /\ DOMAIN gen.sub_terrains = {name}
                       /\ Cardinality(DOMAIN gen.sub_terrains) = 1
      IN  /\ GtZero(r) =>
                /\ one("random_rough")
                /\ gen.sub_terrains["random_rough"].class = "HfRandomUniformTerrainCfg"
                /\ gen.sub_terrains["random_rough"].noise_range
                      = <<Lit("0.00"), [times |-> <<r, Lit("0.01")>>]>>
          /\ ~GtZero(r) /\ GtZero(s) =>
                /\ one("hf_pyramid_incline")
                /\ gen.sub_terrains["hf_pyramid_incline"].inverted
          /\ ~GtZero(r) /\ ~GtZero(s) /\ LtZero(s) =>
                /\ one("hf_pyramid_decline")
                /\ ~gen.sub_terrains["hf_pyramid_decline"].inverted
          /\ ~GtZero(r) /\ ~GtZero(s) /\ ~LtZero(s) /\ closure.display_mode =>
                /\ one("random_rough")
                /\ gen.sub_terrains["random_rough"].noise_range
                      = <<Lit("0.00"), Lit("0.00")>>
          /\ r = Num(5) /\ s = Num(10) => one("random_rough")
          /\ r = Num(0) /\ s = Num(-10) => one("hf_pyramid_decline")

C2_Witness ==
    /\ Built
    /\ closure.terrain_roughness_cm = Num(5)
    /\ closure.terrain_slope_degrees = Num(10)
    /\ DOMAIN cfg.scene.terrain.terrain_generator.sub_terrains = {"random_rough"}

\* C3 as stated: for the recognized task the build succeeds and every reward
\* weight equals the table.
C3_WeightsAlwaysTable ==
    pc = "done" /\ closure.task = RecognizedTask
        => /\ raised = NoError
           /\ cfg # None
           /\ \A e \in RewardTable : WeightOf(cfg.rewards, e[1]) = e[2]

\* C3 amended: for the recognized task the build succeeds; with eval_mode false
\* every reward weight equals the table (base_height_l2 with target height 0.34,
\* undesired_contacts with threshold 1.0); with eval_mode true only the two
\* track terms carry their table weights and every other term of the table is
\* null.
C3_WeightsTableUnlessEval ==
    pc = "done" /\ closure.task = RecognizedTask
        => /\ raised = NoError
           /\ cfg # None
           /\ ~closure.eval_mode =>
                /\ \A e \in RewardTable : WeightOf(cfg.rewards, e[1]) = e[2]
                /\ cfg.rewards["base_height_l2"].params.target_height = "0.34"
                /\ cfg.rewards["undesired_contacts"].params.threshold = "1.0"
           /\ closure.eval_mode =>
                \A e \in RewardTable :
                    WeightOf(cfg.rewards, e[1])
                        = IF e[1] \in TrackNames THEN e[2] ELSE "None"

C3_Witness ==
    /\ Built
    /\ ~closure.eval_mode
    /\ WeightOf(cfg.rewards, "base_height_l2") = "-30.0"
    /\ WeightOf(cfg.rewards, "dof_torques_l2") = "-1e-5"

\* C4: with eval_mode every reward term whose name does not start with "track"
\* is null, the two added terms included, and the track terms keep the weights
\* of reward shaping; without eval_mode no term is null.
C4_EvalKeepsTrackingOnly ==
    Built =>
      /\ {"base_height_l2", "undesired_contacts"} \cup TrackNames
            \subseteq DOMAIN cfg.rewards
      /\ closure.eval_mode =>
            /\ \A n \in DOMAIN cfg.rewards \ TrackNames : cfg.rewards[n] = None
            /\ WeightOf(cfg.rewards, "track_lin_vel_xy_exp") = "1.0"
            /\ WeightOf(cfg.rewards, "track_ang_vel_z_exp") = "0.5"
      /\ ~closure.eval_mode =>
            \A n \in DOMAIN cfg.rewards : cfg.rewards[n] # None

C4_Witness ==
    /\ Built
    /\ closure.eval_mode
    /\ cfg.rewards["base_height_l2"] = None
    /\ cfg.rewards["undesired_contacts"] = None
    /\ WeightOf(cfg.rewards, "track_lin_vel_xy_exp") = "1.0"

\* C5: the contact-termination body pattern is the widened one exactly when
\* eval_mode and terminate_contacts are both true, and the base class's
\* otherwise.
C5_WidenedIffEvalAndTerminate ==
    Built =>
      LET names == cfg.terminations.base_contact.params.sensor_cfg.body_names
          both  == closure.eval_mode /\ closure.terminate_contacts
      IN  /\ names = WidePattern <=> both
          /\ ~both => names = BaseCfg.terminations.base_contact.params.sensor_cfg.body_names

C5_Witness ==
    /\ Built
    /\ closure.eval_mode
    /\ closure.terminate_contacts
    /\ cfg.terminations.base_contact.params.sensor_cfg.body_names = WidePattern

\* C6: height_scan = False nulls the height-scanner sensor and the height_scan
\* observation term together; height_scan = True leaves both as in the base.
C6_HeightScanBothOrNeither ==
    Built =>
      /\ ~closure.height_scan =>
            /\ cfg.scene.height_scanner = None
            /\ cfg.observations.policy.height_scan = None
      /\ closure.height_scan =>
            /\ cfg.scene.height_scanner = BaseCfg.scene.height_scanner
            /\ cfg.observations.policy.height_scan
                  = BaseCfg.observations.policy.height_scan
      /\ cfg.scene.height_scanner = None
            <=> cfg.observations.policy.height_scan = None

C6_Witness ==
    /\ Built
    /\ ~closure.height_scan
    /\ cfg.scene.height_scanner = None
    /\ cfg.observations.policy.height_scan = None

\* C7: with display_mode the viewer resolution is (floor(16 h / 9), h) for the
\* requested pixel height h, and (1280, 720) for h = 720.
C7_ViewerResolution ==
    Built /\ closure.display_mode =>
      LET h == closure.display_resolution
      IN  /\ cfg.viewer.resolution = <<(16 * h) \div 9, h>>
          /\ h = 720 => cfg.viewer.resolution = <<1280, 720>>

C7_Witness ==
    /\ Built
    /\ closure.display_mode
    /\ closure.display_resolution = 100
    /\ cfg.viewer.resolution = <<177, 100>>

\* C8: the terrain is a plane with no generator exactly when none of
\* roughness > 0, slope != 0, display_mode holds; otherwise the generator is
\* there with size 50 x 50 and a 4 x 4 grid; the terrain curriculum is off in
\* both cases.
C8_PlaneIffNothingRequested ==
    Built =>
      LET t == cfg.scene.terrain
          requested == \/ GtZero(closure.terrain_roughness_cm)
                       \/ NeZero(closure.terrain_slope_degrees)
                       \/ closure.display_mode
      IN  /\ ~requested <=> t.terrain_type = "plane" /\ t.terrain_generator = None
          /\ requested =>
                /\ t.terrain_generator # None
                /\ t.terrain_type = BaseCfg.scene.terrain.terrain_type
                /\ t.terrain_generator.size = <<50, 50>>
                /\ t.terrain_generator.num_rows = 4
                /\ t.terrain_generator.num_cols = 4
          /\ cfg.curriculum.terrain_levels = None

C8_Witness ==
    /\ Built
    /\ closure.terrain_roughness_cm = Num(-5)
    /\ closure.terrain_slope_degrees = Num(0)
    /\ ~closure.display_mode
    /\ cfg.scene.terrain.terrain_type = "plane"
    /\ cfg.scene.terrain.terrain_generator = None

\* C9 as stated: with display_mode and an unknown display_type every viewer
\* field keeps the base configuration's value.
C9_UnknownTypeLeavesViewer ==
    Built /\ closure.display_mode /\ closure.display_type \notin KnownDisplayTypes
        => cfg.viewer = BaseViewer

\* C9 amended: with display_mode and an unknown display_type no error is raised
\* and origin_type, asset_name and eye keep the base values, while the
\* resolution is still set from display_resolution; with a known display_type
\* exactly the stated framing is applied.
C9_UnknownTypeLeavesFraming ==
    /\ pc = "done" /\ closure.task = RecognizedTask => raised = NoError
    /\ Built /\ closure.display_mode =>
         LET v  == cfg.viewer
             dt == closure.display_type
             h  == closure.display_resolution
         IN  /\ v.resolution = <<(16 * h) \div 9, h>>
             /\ dt \notin KnownDisplayTypes =>
                   /\ v.origin_type = BaseViewer.origin_type
                   /\ v.asset_name = BaseViewer.asset_name
                   /\ v.eye = BaseViewer.eye
             /\ dt = "world" =>
                   /\ v.origin_type = "world"
                   /\ v.asset_name = BaseViewer.asset_name
                   /\ v.eye = BaseViewer.eye
             /\ dt = "zoom" =>
                   /\ v.origin_type = "asset_root"
                   /\ v.asset_name = "robot"
                   /\ v.eye = <<Lit("2.0"), Lit("2.0"), Lit("2.0")>>
             /\ dt = "follow" =>
                   /\ v.origin_type = "asset_root"
                   /\ v.asset_name = "robot"
                   /\ v.eye = <<Lit("-5.0"), Lit("2.0"), Lit("1.5")>>

C9_Witness ==
    /\ Built
    /\ closure.display_mode
    /\ closure.display_type = "orbit"
    /\ cfg.viewer.resolution = <<1920, 1080>>
    /\ cfg.viewer.origin_type = BaseViewer.origin_type

\* C10: reset_joints_train replaces events.reset_robot_joints exactly when
\* eval_mode is false, the base term staying otherwise; the yaw reset range is
\* (start_yaw_min, start_yaw_max) in both modes.
C10_TrainResetIffNotEval ==
    Built =>
      LET train == [func |-> "reset_joints_train",
                    mode |-> "reset",
                    params |->
                       [stand_range |-> <<Lit("0.0"), Lit("1.0")>>,
                        position_delta_range |-> <<Lit("-0.10"), Lit("0.10")>>]]
      IN  /\ cfg.events.reset_robot_joints = train <=> ~closure.eval_mode
          /\ closure.eval_mode =>
                cfg.events.reset_robot_joints = BaseCfg.events.reset_robot_joints
          /\ cfg.events.reset_base.params.pose_range.yaw
                = <<closure.start_yaw_min, closure.start_yaw_max>>

C10_Witness ==
    /\ Built
    /\ closure.eval_mode
    /\ cfg.events.reset_robot_joints = BaseCfg.events.reset_robot_joints
    /\ cfg.events.reset_base.params.pose_range.yaw = <<Lit("-3.14"), Lit("3.14")>>

=============================================================================
